---- MODULE Spec2Model ----
(***************************************************************************)
(* Run orchestration of the V8 optimization lab server:                    *)
(*   server/src/services/RunService.ts  (queue, worker loop, persistence)  *)
(*   server/src/routes/runs.ts          (POST /api/runs, SSE stream)       *)
(*   server/src/validation.ts           (runOptionsSchema)                 *)
(* Node runs one callback at a time: every action below is one            *)
(* run-to-completion segment of JavaScript between two awaits, or one      *)
(* step of the file system / child process the code awaits.                *)
(***************************************************************************)
EXTENDS Integers, Sequences, FiniteSets, Bags, TLC

\* ------------------------------------------------------------ bounds
MaxRuns == 2        \* admitted submissions in Spec, CalmSpec
ValRuns == 1        \* admitted submissions in ValSpec
OptRuns == 1        \* admitted submissions in OptSpec
MaxRejects == 1     \* 400 responses recorded
MaxSubs == 2        \* stream requests
MaxChunks == 2      \* stdout/stderr chunks a process writes
ObsChunks == 1      \* chunks a process writes in ObsSpec
ListRuns == 2       \* admitted submissions in ListSpec
MaxClock == 1       \* milliseconds that pass in ListSpec
PubSubs == 1        \* stream requests in PubSpec
PubChunks == 1      \* chunks a process writes in PubSpec

\* ------------------------------------------------------------ validation.ts
ExpMinLen == 1
ExpMaxLen == 100
WarmupMin == 0
WarmupMax == 100000
WarmupDefault == 1000
RepeatMin == 1
RepeatMax == 1000000
RepeatDefault == 100000

Variants == {"baseline", "deopt", "fixed"}

\* An experiment name, by what the schema and the catalog can tell about it:
\* its length, whether every character is in [\w-], whether a folder
\* experiments/<name>/ exists.
KnownExp == [len |-> 17, word |-> TRUE, known |-> TRUE]
GhostExp == [len |-> 17, word |-> TRUE, known |-> FALSE]

\* z.string().min(1).max(100).regex(/^[\w-]+$/)
ExpOk(e) == e.len >= ExpMinLen /\ e.len <= ExpMaxLen /\ e.word

\* (a schema whose .max(hi) is missing)
NumOkNoMax(f, lo, hi) == \A v \in f : v >= lo

\* z.number().int().min(lo).max(hi).optional(): an absent field is {}.
NumOk(f, lo, hi) == \A v \in f : v >= lo /\ v <= hi

WarmupOk(f) == NumOk(f, WarmupMin, WarmupMax)

RepeatOk(f) == NumOk(f, RepeatMin, RepeatMax)

\* runOptionsSchema.safeParse(body).success
SafeParse(b) ==
  /\ ExpOk(b.exp)
  /\ b.variant \in Variants
  /\ WarmupOk(b.warmup)
  /\ RepeatOk(b.repeat)

\* .default(d)
OrDefault(f, d) == IF f = {} THEN d ELSE CHOOSE v \in f : TRUE

\* validation.data
ParsedOptions(b) ==
  [exp |-> b.exp, variant |-> b.variant,
   trace |-> OrDefault(b.trace, FALSE), profile |-> OrDefault(b.profile, FALSE),
   warmup |-> OrDefault(b.warmup, WarmupDefault),
   repeat |-> OrDefault(b.repeat, RepeatDefault)]

\* ------------------------------------------------------------ request bodies
Body(e, v, t, p, w, r) ==
  [exp |-> e, variant |-> v, trace |-> t, profile |-> p, warmup |-> w, repeat |-> r]

PlainBody == Body(KnownExp, "baseline", {}, {}, {}, {})

\* Bodies the schema refuses, one per rule.
BadBodies ==
  { Body(KnownExp, "baseline", {}, {}, {w}, {}) : w \in {WarmupMin - 1, WarmupMax + 1} }
  \cup { Body(KnownExp, "baseline", {}, {}, {}, {r}) : r \in {RepeatMin - 1, RepeatMax + 1, 2000000} }
  \cup { Body(KnownExp, "turbo", {}, {}, {}, {}) }
  \cup { Body([len |-> l, word |-> TRUE, known |-> FALSE], "baseline", {}, {}, {}, {})
           : l \in {ExpMinLen - 1, ExpMaxLen + 1} }
  \cup { Body([len |-> 3, word |-> FALSE, known |-> FALSE], "baseline", {}, {}, {}, {}) }

\* Bodies at the edges of the numeric ranges, and a well-formed name of no experiment.
EdgeBodies ==
  { Body(KnownExp, "baseline", {}, {}, {w}, {r}) :
      w \in {WarmupMin, WarmupMax}, r \in {RepeatMin, RepeatMax} }
  \cup { Body(GhostExp, "deopt", {}, {}, {}, {}) }

ValBodies == {PlainBody} \cup BadBodies \cup EdgeBodies

\* Bodies with and without the trace and profile options.
OptBodies ==
  { Body(KnownExp, "fixed", t, p, {}, {}) : t \in {{}, {TRUE}}, p \in {{}, {TRUE}} }
  \cup { Body(KnownExp, "fixed", {FALSE}, {TRUE}, {}, {}) }

\* ------------------------------------------------------------ run records
\* RunMetadata (types.ts). timestamps.queued is the millisecond it was taken
\* in, the other timestamps are modelled by their presence, results by the
\* set holding its exitCode (empty: no results), artifacts by the set of keys
\* that are set.
Blank ==
  [exp |-> KnownExp, variant |-> "baseline", trace |-> FALSE, profile |-> FALSE,
   warmup |-> 0, repeat |-> 0, status |-> "nofile", queued |-> 0,
   started |-> FALSE, completed |-> FALSE, results |-> {}, artifacts |-> {}]

NoFile == Blank

\* A file JSON.parse refuses: truncated by an open, or the mix of two writes.
Unparsable == [Blank EXCEPT !.status = "unparsable"]

\* createRun's metadata literal
NewMetadata(o, now) ==
  [exp |-> o.exp, variant |-> o.variant, trace |-> o.trace, profile |-> o.profile,
   warmup |-> o.warmup, repeat |-> o.repeat, status |-> "queued", queued |-> now,
   started |-> FALSE, completed |-> FALSE, results |-> {}, artifacts |-> {}]

Terminal(m) == m.status \in {"completed", "failed"}

Parses(m) == m.status \notin {"nofile", "unparsable"}

\* Length of JSON.stringify(metadata, null, 2), up to a constant: what decides
\* whether a write covers what another write left in the file.
JsonLength(m) ==
  IF ~Parses(m) THEN 0
  ELSE 400
       + (CASE m.status = "queued" -> 6 [] m.status = "running" -> 7
            [] m.status = "completed" -> 9 [] OTHER -> 6)
       + (IF m.started THEN 43 ELSE 0)
       + (IF m.completed THEN 45 ELSE 0)
       + (IF m.results = {} THEN 0 ELSE 60)
       + 50 * Cardinality(m.artifacts)

\* ------------------------------------------------------------ state
VARIABLES
  queue,        \* RunService.queue: run ids, head first
  currentRun,   \* RunService.currentRun: a run id, 0 for null
  processing,   \* RunService.processing
  metadata,     \* the RunMetadata object of each run, by id
  wpc,          \* where processQueue / executeRun is suspended
  wsave,        \* the worker's saveMetadata call in flight
  csave,        \* createRun's saveMetadata call in flight, by id
  reply,        \* POST /api/runs response per createRun call: 0 pending, 201, 500
  rejects,      \* 400 responses sent
  disk,         \* artifacts/runs/<id>.json, by id
  proc,         \* the child process of each run
  subs,         \* GET /:id/stream requests: a bag, two requests in the same
                \* state being alike
  out,          \* number of chunks the current child has written
  clock,        \* the millisecond new Date() reads
  listing,      \* the listRuns call in progress or last finished
  seen          \* the status the last getRun that found each run returned

coordVars == <<queue, currentRun, processing, metadata, wpc, wsave>>
httpVars == <<csave, reply, rejects>>
streamVars == <<subs, out>>
listVars == <<clock, listing, seen>>
vars == <<queue, currentRun, processing, metadata, wpc, wsave, csave, reply,
          rejects, disk, proc, subs, out, clock, listing,
          seen>>

Runs == 1..Len(metadata)

NoSave == [phase |-> "idle", id |-> 0, content |-> Blank, raced |-> FALSE]

\* createRun's saveMetadata called: mkdir is pending.
StartSave(id) == [phase |-> "mkdir", id |-> id, content |-> Blank, raced |-> FALSE]

\* The worker's saveMetadata called with record m. The worker is suspended
\* until the call settles and nothing else writes to the object of a run that
\* has left the queue, so the text writeFile will get is m's already.
StartWorkerSave(id, m) == [phase |-> "ready", id |-> id, content |-> m, raced |-> FALSE]

InFlight(s) == s.phase # "idle"

NotSpawned == [kind |-> "none", code |-> -1]

\* No listRuns call has been made.
NoListing == [pc |-> "idle", files |-> <<>>, runs |-> <<>>]

Init ==
  /\ queue = <<>>
  /\ currentRun = 0
  /\ processing = FALSE
  /\ metadata = <<>>
  /\ wpc = "idle"
  /\ wsave = NoSave
  /\ csave = <<>>
  /\ reply = <<>>
  /\ rejects = 0
  /\ disk = <<>>
  /\ proc = <<>>
  /\ subs = EmptyBag
  /\ out = 0
  /\ clock = 0
  /\ listing = NoListing
  /\ seen = <<>>


\* ------------------------------------------------------------ stream events
\* One `data: {type, data}` message written with res.write. The payload is the
\* status string, the chunk (its number in the child's output) or the run record.
Event(t, st, n, m) == [type |-> t, status |-> st, n |-> n, run |-> m]

StatusEvent(st) == Event("status", st, 0, Blank)

ChunkEvent(kind, n) == Event(kind, "", n, Blank)

ErrorEvent == Event("error", "", 0, Blank)

CompleteEvent(m) == Event("complete", "", 0, m)

\* The stream requests of bag B after each ran handler H.
RECURSIVE Copies(_, _)
Copies(S, B) ==
  IF S = {} THEN 0
  ELSE LET e == CHOOSE x \in S : TRUE IN B[e] + Copies(S \ {e}, B)

Handled(H, B) ==
  [x \in {H[e] : e \in DOMAIN B} |-> Copies({e \in DOMAIN B : H[e] = x}, B)]

\* (a listener registered with once instead of on: it hears one chunk)
OnChunkOnce(sub, id, kind, n) ==
  IF sub.listening /\ sub.run = id /\ Len(sub.events) <= 1
  THEN [sub EXCEPT !.events = Append(@, ChunkEvent(kind, n))]
  ELSE sub

\* onStdout / onStderr of a stream request
OnChunk(sub, id, kind, n) ==
  IF sub.listening /\ sub.run = id
  THEN [sub EXCEPT !.events = Append(@, ChunkEvent(kind, n))]
  ELSE sub

\* onError
OnError(sub, id) ==
  IF sub.listening /\ sub.run = id
  THEN [sub EXCEPT !.events = Append(@, ErrorEvent)]
  ELSE sub

\* (an onComplete that neither ends the response nor removes the listeners)
OnCompleteStaysOpen(sub, id, m) ==
  IF sub.listening /\ sub.run = id
  THEN [sub EXCEPT !.events = Append(@, CompleteEvent(m))]
  ELSE sub

\* (an onComplete without the `if (runId === id)` test)
OnCompleteAnyRun(sub, id, m) ==
  IF sub.listening
  THEN [sub EXCEPT !.events = Append(@, CompleteEvent(m)),
                   !.pc = "ended", !.listening = FALSE]
  ELSE sub

\* onComplete: write, end, cleanup
OnComplete(sub, id, m) ==
  IF sub.listening /\ sub.run = id
  THEN [sub EXCEPT !.events = Append(@, CompleteEvent(m)),
                   !.pc = "ended", !.listening = FALSE]
  ELSE sub

\* this.emit('run:stdout' | 'run:stderr', id, chunk)
EmitChunkTo(B, id, kind, n) ==
  Handled([e \in DOMAIN B |-> OnChunk(e, id, kind, n)], B)

\* this.emit('run:error', id, message)
EmitErrorTo(B, id) ==
  Handled([e \in DOMAIN B |-> OnError(e, id)], B)

\* this.emit('run:complete', id, metadata)
EmitCompleteTo(B, id, m) ==
  Handled([e \in DOMAIN B |-> OnComplete(e, id, m)], B)

\* ------------------------------------------------------------ saveMetadata
\* await mkdir(...) resolved: JSON.stringify(metadata) is taken now, from the
\* object as it is now, and writeFile is called.
Stringify(s) == [s EXCEPT !.phase = "ready", !.content = metadata[s.id]]

\* What the file holds once the write of s has landed. A write that began
\* before another write to the same file landed starts at offset 0 as well:
\* it covers the other's bytes only if it is at least as long.
Landed(s) ==
  IF s.raced /\ JsonLength(s.content) < JsonLength(disk[s.id])
  THEN Unparsable
  ELSE s.content

\* The other saveMetadata call, if it has the same file open.
Overtaken(other, s) ==
  IF other.phase = "open" /\ other.id = s.id
  THEN [other EXCEPT !.raced = TRUE]
  ELSE other

\* mkdir of createRun's save resolves
CreateSaveMkdir(r) ==
  /\ r \in Runs
  /\ csave[r].phase = "mkdir"
  /\ csave' = [csave EXCEPT ![r] = Stringify(@)]
  /\ UNCHANGED <<coordVars, reply, rejects, disk, proc, streamVars, listVars>>

\* writeFile of createRun's save opens the file with flag 'w'
CreateSaveOpen(r) ==
  /\ r \in Runs
  /\ csave[r].phase = "ready"
  /\ csave' = [csave EXCEPT ![r].phase = "open"]
  /\ disk' = [disk EXCEPT ![r] = Unparsable]
  /\ UNCHANGED <<coordVars, reply, rejects, proc, streamVars, listVars>>

\* writeFile of the worker's save opens the file with flag 'w'
WorkerSaveOpen ==
  /\ wsave.phase = "ready"
  /\ wsave' = [wsave EXCEPT !.phase = "open"]
  /\ disk' = [disk EXCEPT ![wsave.id] = Unparsable]
  /\ UNCHANGED <<queue, currentRun, processing, metadata, wpc, httpVars, proc,
               streamVars, listVars>>

\* ------------------------------------------------------------ processQueue
\* executeRun's "Update status to running"
Started(m) == [m EXCEPT !.status = "running", !.started = TRUE]

\* (a loop that reads queue[0] and leaves it in the queue)
LoopStepPeek(md) ==
  IF queue # <<>>
  THEN /\ queue' = queue
       /\ currentRun' = Head(queue)
       /\ metadata' = [md EXCEPT ![Head(queue)] = Started(@)]
       /\ wsave' = StartWorkerSave(Head(queue), Started(md[Head(queue)]))
       /\ wpc' = "saveRunning"
       /\ processing' = TRUE
  ELSE /\ queue' = queue
       /\ currentRun' = 0
       /\ metadata' = md
       /\ wsave' = NoSave
       /\ wpc' = "idle"
       /\ processing' = FALSE

\* (a loop that takes the newest entry: pop() instead of shift())
LoopStepLifo(md) ==
  IF queue # <<>>
  THEN /\ queue' = SubSeq(queue, 1, Len(queue) - 1)
       /\ currentRun' = queue[Len(queue)]
       /\ metadata' = [md EXCEPT ![queue[Len(queue)]] = Started(@)]
       /\ wsave' = StartWorkerSave(queue[Len(queue)], Started(md[queue[Len(queue)]]))
       /\ wpc' = "saveRunning"
       /\ processing' = TRUE
  ELSE /\ queue' = queue
       /\ currentRun' = 0
       /\ metadata' = md
       /\ wsave' = NoSave
       /\ wpc' = "idle"
       /\ processing' = FALSE

\* The while loop of processQueue from its test to the first await: with a
\* queued run, shift it, make it current and enter executeRun up to its first
\* saveMetadata; with none, leave the loop. md is the metadata so far.
LoopStep(md) ==
  IF queue # <<>>
  THEN /\ queue' = Tail(queue)
       /\ currentRun' = Head(queue)
       /\ metadata' = [md EXCEPT ![Head(queue)] = Started(@)]
       /\ wsave' = StartWorkerSave(Head(queue), Started(md[Head(queue)]))
       /\ wpc' = "saveRunning"
       /\ processing' = TRUE
  ELSE /\ queue' = queue
       /\ currentRun' = 0
       /\ metadata' = md
       /\ wsave' = NoSave
       /\ wpc' = "idle"
       /\ processing' = FALSE

\* ------------------------------------------------------------ POST /api/runs
\* safeParse fails: 400, createRun is not called.
PostInvalid(b) ==
  /\ ~SafeParse(b)
  /\ rejects < MaxRejects
  /\ rejects' = rejects + 1
  /\ UNCHANGED <<coordVars, csave, reply, disk, proc, streamVars, listVars>>

\* safeParse succeeds: createRun up to `await this.saveMetadata(metadata)`.
PostValid(b, cap) ==
  /\ SafeParse(b)
  /\ Len(metadata) < cap
  /\ metadata' = Append(metadata, NewMetadata(ParsedOptions(b), clock))
  /\ queue' = Append(queue, Len(metadata) + 1)
  /\ csave' = Append(csave, StartSave(Len(metadata) + 1))
  /\ reply' = Append(reply, 0)
  /\ disk' = Append(disk, NoFile)
  /\ proc' = Append(proc, NotSpawned)
  /\ seen' = Append(seen, "none")
  /\ UNCHANGED <<currentRun, processing, wpc, wsave, rejects, streamVars, clock, listing>>

\* (a createRun that returns without calling processQueue)
CreateSavedNoWake(r) ==
  /\ r \in Runs
  /\ csave[r].phase = "open"
  /\ disk' = [disk EXCEPT ![r] = Landed(csave[r])]
  /\ csave' = [csave EXCEPT ![r] = NoSave]
  /\ reply' = [reply EXCEPT ![r] = 201]
  /\ wsave' = Overtaken(wsave, csave[r])
  /\ UNCHANGED <<queue, currentRun, processing, metadata, wpc>>
  /\ UNCHANGED <<rejects, proc, streamVars, listVars>>

\* createRun's write lands and its await resolves: start processQueue unless
\* processing, then 201.
CreateSaved(r) ==
  /\ r \in Runs
  /\ csave[r].phase = "open"
  /\ disk' = [disk EXCEPT ![r] = Landed(csave[r])]
  /\ csave' = [csave EXCEPT ![r] = NoSave]
  /\ reply' = [reply EXCEPT ![r] = 201]
  /\ IF processing
     THEN /\ wsave' = Overtaken(wsave, csave[r])
          /\ UNCHANGED <<queue, currentRun, processing, metadata, wpc>>
     ELSE LoopStep(metadata)
  /\ UNCHANGED <<rejects, proc, streamVars, listVars>>

\* createRun's mkdir or writeFile rejects: createRun throws, next(error), 500.
CreateSaveFails(r) ==
  /\ r \in Runs
  /\ InFlight(csave[r])
  /\ csave' = [csave EXCEPT ![r] = NoSave]
  /\ reply' = [reply EXCEPT ![r] = 500]
  /\ UNCHANGED <<coordVars, rejects, disk, proc, streamVars, listVars>>

\* ------------------------------------------------------------ executeRun
\* The save of the running record lands: emit run:start, call execa. The
\* child is spawned, or could not be (execa then rejects at the await).
RunningSaved ==
  /\ wpc = "saveRunning"
  /\ wsave.phase = "open"
  /\ disk' = [disk EXCEPT ![wsave.id] = Landed(wsave)]
  /\ csave' = [csave EXCEPT ![wsave.id] = Overtaken(@, wsave)]
  /\ wsave' = NoSave
  /\ wpc' = "exec"
  /\ proc' = [proc EXCEPT ![currentRun] = [kind |-> "awaited", code |-> -1]]
  /\ out' = 0
  /\ UNCHANGED <<queue, currentRun, processing, metadata, reply, rejects, subs, listVars>>

\* result.stdout / result.stderr 'data': emit run:stdout / run:stderr
EmitChunk(kind) ==
  /\ wpc = "exec"
  /\ out < MaxChunks
  /\ out' = out + 1
  /\ subs' = EmitChunkTo(subs, currentRun, kind, out + 1)
  /\ UNCHANGED <<coordVars, httpVars, disk, proc, listVars>>

\* error.exitCode of the error execa rejects with: the exit code of a child
\* that exited, undefined (-1) for a timeout kill or a failed spawn.
ErrorExitCode(o) == IF o.kind = "exit" THEN o.code ELSE -1

\* error.exitCode || 1
OrOne(c) == IF c = -1 \/ c = 0 THEN 1 ELSE c

\* (artifacts that list every path whatever the options)
CompletedArtifactsAll(m) == {"stdout", "stderr", "cpuProfile"}

\* artifacts of a completed run
CompletedArtifacts(m) ==
  {"stdout"} \cup (IF m.trace THEN {"stderr"} ELSE {})
             \cup (IF m.profile THEN {"cpuProfile"} ELSE {})

\* `await result` resolved: the child exited with code 0.
ExecSucceeded(m) ==
  [m EXCEPT !.status = "completed", !.completed = TRUE, !.results = {0},
            !.artifacts = CompletedArtifacts(m)]

\* `await result` rejected with outcome o: the catch of executeRun.
ExecFailed(m, o) ==
  [m EXCEPT !.status = "failed", !.completed = TRUE,
            !.results = {OrOne(ErrorExitCode(o))}]

ExitCodes == {0, 1}

\* How `await result` can settle: the child exits by itself, the timeout
\* kills it, or it could not be spawned at all.
Endings == { [kind |-> "exit", code |-> c] : c \in ExitCodes }
             \cup { [kind |-> "timeout", code |-> -1], [kind |-> "spawnfail", code |-> -1] }

\* The child exits by itself.
ExitEndings == { o \in Endings : o.kind = "exit" }

\* `await result` settles with outcome o; the final saveMetadata is called.
\* A child that was never spawned has written nothing.
ExecDone(o) ==
  /\ wpc = "exec"
  /\ o \in Endings
  /\ o.kind = "spawnfail" => out = 0
  /\ proc' = [proc EXCEPT ![currentRun] = o]
  /\ IF o.kind = "exit" /\ o.code = 0
     THEN /\ metadata' = [metadata EXCEPT ![currentRun] = ExecSucceeded(@)]
          /\ subs' = subs
     ELSE /\ metadata' = [metadata EXCEPT ![currentRun] = ExecFailed(@, o)]
          /\ subs' = EmitErrorTo(subs, currentRun)
  /\ wsave' = StartWorkerSave(currentRun, metadata'[currentRun])
  /\ wpc' = "saveFinal"
  /\ UNCHANGED <<queue, currentRun, processing, httpVars, disk, out, listVars>>

\* The final save lands: emit run:complete, return to processQueue, which
\* clears currentRun and goes round its loop.
FinalSaved ==
  /\ wpc = "saveFinal"
  /\ wsave.phase = "open"
  /\ disk' = [disk EXCEPT ![wsave.id] = Landed(wsave)]
  /\ csave' = [csave EXCEPT ![wsave.id] = Overtaken(@, wsave)]
  /\ subs' = EmitCompleteTo(subs, currentRun, metadata[currentRun])
  /\ LoopStep(metadata)
  /\ UNCHANGED <<reply, rejects, proc, out, listVars>>

\* processQueue's catch: the record of the run that threw
Caught(m) == [m EXCEPT !.status = "failed", !.completed = TRUE]

\* A saveMetadata of executeRun rejects: executeRun throws into the catch of
\* processQueue, which marks the run failed and saves again.
ExecuteRunThrows ==
  /\ wpc \in {"saveRunning", "saveFinal"}
  /\ InFlight(wsave)
  /\ metadata' = [metadata EXCEPT ![currentRun] = Caught(@)]
  /\ wsave' = StartWorkerSave(currentRun, metadata'[currentRun])
  /\ wpc' = "saveCatch"
  /\ UNCHANGED <<queue, currentRun, processing, httpVars, disk, proc, streamVars,
               listVars>>

\* The save in the catch lands: currentRun = null, round the loop.
CatchSaved ==
  /\ wpc = "saveCatch"
  /\ wsave.phase = "open"
  /\ disk' = [disk EXCEPT ![wsave.id] = Landed(wsave)]
  /\ csave' = [csave EXCEPT ![wsave.id] = Overtaken(@, wsave)]
  /\ LoopStep(metadata)
  /\ UNCHANGED <<reply, rejects, proc, streamVars, listVars>>

\* The save in the catch rejects: processQueue's promise rejects with nobody
\* awaiting it; processing and currentRun stay as they are.
CatchThrows ==
  /\ wpc = "saveCatch"
  /\ InFlight(wsave)
  /\ wsave' = NoSave
  /\ wpc' = "dead"
  /\ UNCHANGED <<queue, currentRun, processing, metadata, httpVars, disk, proc,
               streamVars, listVars>>

\* ------------------------------------------------------------ GET /:id/stream
\* The request arrives and getRun's readFile reads the file as it is now.
StreamRead(id) ==
  /\ id \in Runs
  /\ BagCardinality(subs) < MaxSubs
  /\ subs' = subs (+) SetToBag({[run |-> id, pc |-> "read", snap |-> disk[id],
                                 connected |-> TRUE, listening |-> FALSE,
                                 events |-> <<>>]})
  /\ UNCHANGED <<coordVars, httpVars, disk, proc, out, listVars>>

\* (a handler that replays the first chunk already written to a late request)
AttachedReplay(sub) ==
  IF ~Parses(sub.snap)
  THEN [sub EXCEPT !.pc = "notfound", !.snap = Blank]
  ELSE IF Terminal(sub.snap)
  THEN [sub EXCEPT !.pc = "ended",
                   !.events = <<StatusEvent(sub.snap.status), CompleteEvent(sub.snap)>>]
  ELSE [sub EXCEPT !.pc = "attached", !.snap = Blank,
                   !.events = IF out >= 1
                              THEN <<StatusEvent(sub.snap.status), ChunkEvent("stdout", 1)>>
                              ELSE <<StatusEvent(sub.snap.status)>>,
                   !.listening = TRUE]

\* (a handler whose already-terminal branch does not return)
AttachedNoReturn(sub) ==
  IF ~Parses(sub.snap)
  THEN [sub EXCEPT !.pc = "notfound", !.snap = Blank]
  ELSE IF Terminal(sub.snap)
  THEN [sub EXCEPT !.pc = "ended",
                   !.events = <<StatusEvent(sub.snap.status), CompleteEvent(sub.snap)>>,
                   !.listening = TRUE]
  ELSE [sub EXCEPT !.pc = "attached", !.snap = Blank,
                   !.events = <<StatusEvent(sub.snap.status)>>,
                   !.listening = TRUE]

\* The handler after `await runService.getRun(id)`: 404, or the status event
\* and then either complete and end, or the four listeners.
Attached(sub) ==
  IF ~Parses(sub.snap)
  THEN [sub EXCEPT !.pc = "notfound", !.snap = Blank]
  ELSE IF Terminal(sub.snap)
  THEN [sub EXCEPT !.pc = "ended",
                   !.events = <<StatusEvent(sub.snap.status), CompleteEvent(sub.snap)>>]
  ELSE [sub EXCEPT !.pc = "attached", !.snap = Blank,
                   !.events = <<StatusEvent(sub.snap.status)>>,
                   !.listening = TRUE]

StreamAttach(sub) ==
  /\ BagIn(sub, subs)
  /\ sub.pc = "read"
  /\ subs' = (subs (-) SetToBag({sub})) (+) SetToBag({Attached(sub)})
  /\ UNCHANGED <<coordVars, httpVars, disk, proc, out, listVars>>

\* req's 'close' handler, if the handler has registered it: cleanup
Closed(sub) == [sub EXCEPT !.connected = FALSE, !.listening = FALSE]

\* (a cleanup that calls removeAllListeners on the service)
ClientCloseAll(sub) ==
  /\ BagIn(sub, subs)
  /\ sub.connected
  /\ sub.pc \in {"read", "attached"}
  /\ subs' = Handled([e \in DOMAIN subs |->
                        IF e = sub THEN Closed(e) ELSE [e EXCEPT !.listening = FALSE]],
                     subs)
  /\ UNCHANGED <<coordVars, httpVars, disk, proc, out, listVars>>

\* The client goes away: req emits 'close' once. cleanup runs only if the
\* handler has registered it by then.
ClientClose(sub) ==
  /\ BagIn(sub, subs)
  /\ sub.connected
  /\ sub.pc \in {"read", "attached"}
  /\ subs' = (subs (-) SetToBag({sub})) (+) SetToBag({Closed(sub)})
  /\ UNCHANGED <<coordVars, httpVars, disk, proc, out, listVars>>

\* ------------------------------------------------------------ getRun
\* GET /api/runs/:id: getRun's readFile reads the file as it is now; the
\* caller learns the status if JSON.parse takes the text, and gets null (404)
\* otherwise.
GetRunCall(r) ==
  /\ r \in Runs
  /\ seen' = [seen EXCEPT ![r] = IF Parses(disk[r]) THEN disk[r].status ELSE @]
  /\ UNCHANGED <<coordVars, httpVars, disk, proc, streamVars, clock, listing>>

\* ------------------------------------------------------------ listRuns
\* A millisecond passes: new Date() reads the next value.
Tick ==
  /\ clock < MaxClock
  /\ clock' = clock + 1
  /\ UNCHANGED <<coordVars, httpVars, disk, proc, streamVars, listing, seen>>

\* The .json files artifacts/runs holds.
Files == {r \in Runs : disk[r].status # "nofile"}

\* The orders readdir may return the entries f in. File names are random
\* UUIDs and readdir promises no order: any order unrelated to submission.
ReaddirOrders(f) ==
  {s \in [1..Cardinality(f) -> f] : \A i \in DOMAIN s : \A j \in DOMAIN s : i # j => s[i] # s[j]}

\* JSON.parse(content) of run r's file: of the record, its id and
\* timestamps.queued.
Parsed(r) == [id |-> r, queued |-> disk[r].queued]

\* x put into t, which is sorted: behind every element the comparator does not
\* order after x.
Inserted(t, x) ==
  LET k == Cardinality({i \in DOMAIN t : t[i].queued >= x.queued})
  IN SubSeq(t, 1, k) \o <<x>> \o SubSeq(t, k + 1, Len(t))

\* runs.sort((a, b) => b.timestamps.queued - a.timestamps.queued): descending
\* by queued; Array.prototype.sort is stable, elements that compare equal keep
\* the order they were pushed in.
RECURSIVE SortNewestFirst(_)
SortNewestFirst(s) ==
  IF s = <<>> THEN <<>>
  ELSE Inserted(SortNewestFirst(SubSeq(s, 1, Len(s) - 1)), s[Len(s)])

\* listRuns called; mkdir and readdir resolve, with the entries in some order.
ListReaddir(order) ==
  /\ listing.pc # "reading"
  /\ order \in ReaddirOrders(Files)
  /\ listing' = [pc |-> "reading", files |-> order, runs |-> <<>>]
  /\ UNCHANGED <<coordVars, httpVars, disk, proc, streamVars, clock, seen>>

\* listRuns called; mkdir or readdir rejects: the outer catch returns [].
ListReaddirFails ==
  /\ listing.pc # "reading"
  /\ listing' = [pc |-> "done", files |-> <<>>, runs |-> <<>>]
  /\ UNCHANGED <<coordVars, httpVars, disk, proc, streamVars, clock, seen>>

\* readFile of the next file resolves: JSON.parse pushes the record, or throws
\* and the inner catch goes on to the next file.
ListRead ==
  /\ listing.pc = "reading"
  /\ listing.files # <<>>
  /\ listing' = [listing EXCEPT
                   !.files = Tail(@),
                   !.runs = IF Parses(disk[Head(listing.files)])
                            THEN Append(@, Parsed(Head(listing.files)))
                            ELSE @]
  /\ UNCHANGED <<coordVars, httpVars, disk, proc, streamVars, clock, seen>>

\* readFile of the next file rejects: the inner catch goes on to the next file.
ListReadFails ==
  /\ listing.pc = "reading"
  /\ listing.files # <<>>
  /\ listing' = [listing EXCEPT !.files = Tail(@)]
  /\ UNCHANGED <<coordVars, httpVars, disk, proc, streamVars, clock, seen>>

\* Every file has been read: sort and return.
ListSorted ==
  /\ listing.pc = "reading"
  /\ listing.files = <<>>
  /\ listing' = [pc |-> "done", files |-> <<>>, runs |-> SortNewestFirst(listing.runs)]
  /\ UNCHANGED <<coordVars, httpVars, disk, proc, streamVars, clock, seen>>

ListSteps ==
  \/ \E order \in ReaddirOrders(Files) : ListReaddir(order)
  \/ ListReaddirFails
  \/ ListRead
  \/ ListReadFails
  \/ ListSorted

\* ------------------------------------------------------------ specifications
SaveSteps ==
  \/ \E r \in Runs : CreateSaveMkdir(r)
  \/ \E r \in Runs : CreateSaveOpen(r)
  \/ \E r \in Runs : CreateSaved(r)
  \/ \E r \in Runs : CreateSaveFails(r)
  \/ WorkerSaveOpen

WorkerSteps(endings) ==
  \/ RunningSaved
  \/ \E o \in endings : ExecDone(o)
  \/ FinalSaved
  \/ ExecuteRunThrows
  \/ CatchSaved
  \/ CatchThrows

Next ==
  \/ PostValid(PlainBody, MaxRuns)
  \/ SaveSteps
  \/ WorkerSteps(Endings)

Spec == Init /\ [][Next]_vars


\* Validation at the boundary: every kind of body, few runs.
ValNext ==
  \/ \E b \in ValBodies : PostInvalid(b)
  \/ \E b \in ValBodies : PostValid(b, ValRuns)
  \/ SaveSteps
  \/ WorkerSteps(Endings)

ValSpec == Init /\ [][ValNext]_vars

\* Runs with and without trace and profile.
OptNext ==
  \/ \E b \in OptBodies : PostValid(b, OptRuns)
  \/ SaveSteps
  \/ WorkerSteps(Endings)

OptSpec == Init /\ [][OptNext]_vars

\* Live streams of a run.
StreamSteps ==
  \/ \E kind \in {"stdout", "stderr"} : EmitChunk(kind)
  \/ \E id \in Runs : StreamRead(id)
  \/ \E sub \in BagToSet(subs) : StreamAttach(sub)
  \/ \E sub \in BagToSet(subs) : ClientClose(sub)

StreamNext ==
  \/ SaveSteps
  \/ WorkerSteps(ExitEndings)
  \/ StreamSteps

\* One run has just been submitted: createRun(PlainBody) is at its await.
StreamInit ==
  /\ queue = <<1>>
  /\ currentRun = 0
  /\ processing = FALSE
  /\ metadata = <<NewMetadata(ParsedOptions(PlainBody), 0)>>
  /\ wpc = "idle"
  /\ wsave = NoSave
  /\ csave = <<StartSave(1)>>
  /\ reply = <<0>>
  /\ rejects = 0
  /\ disk = <<NoFile>>
  /\ proc = <<NotSpawned>>
  /\ subs = EmptyBag
  /\ out = 0
  /\ clock = 0
  /\ listing = NoListing
  /\ seen = <<"none">>

StreamSpec == StreamInit /\ [][StreamNext]_vars


\* Streams of a run whose process writes little, clients coming and going.
ObsNext ==
  \/ SaveSteps
  \/ WorkerSteps(ExitEndings)
  \/ \E kind \in {"stdout", "stderr"} : out < ObsChunks /\ EmitChunk(kind)
  \/ \E id \in Runs : StreamRead(id)
  \/ \E sub \in BagToSet(subs) : StreamAttach(sub)
  \/ \E sub \in BagToSet(subs) : ClientClose(sub)

ObsSpec == StreamInit /\ [][ObsNext]_vars

\* Submissions as the clock runs, their first saves, and listRuns calls.
ListNext ==
  \/ PostValid(PlainBody, ListRuns)
  \/ Tick
  \/ \E r \in Runs : CreateSaveMkdir(r)
  \/ \E r \in Runs : CreateSaveOpen(r)
  \/ \E r \in Runs : CreateSaved(r)
  \/ ListSteps

ListSpec == Init /\ [][ListNext]_vars

\* The file system never fails: no mkdir or writeFile rejects.
CalmSaveSteps ==
  \/ \E r \in Runs : CreateSaveMkdir(r)
  \/ \E r \in Runs : CreateSaveOpen(r)
  \/ \E r \in Runs : CreateSaved(r)
  \/ WorkerSaveOpen

CalmWorkerSteps ==
  \/ RunningSaved
  \/ \E o \in Endings : ExecDone(o)
  \/ FinalSaved

CalmNext ==
  \/ PostValid(PlainBody, MaxRuns)
  \/ CalmSaveSteps
  \/ CalmWorkerSteps

CalmSpec == Init /\ [][CalmNext]_vars

\* Submissions, the worker, and clients polling getRun; no save fails.
CalmGetNext ==
  \/ PostValid(PlainBody, MaxRuns)
  \/ CalmSaveSteps
  \/ CalmWorkerSteps
  \/ \E r \in Runs : GetRunCall(r)

CalmGetSpec == Init /\ [][CalmGetNext]_vars

\* Two runs have just been submitted, in the same millisecond: both createRun
\* calls are at their await.
PubInit ==
  /\ queue = <<1, 2>>
  /\ currentRun = 0
  /\ processing = FALSE
  /\ metadata = <<NewMetadata(ParsedOptions(PlainBody), 0),
                  NewMetadata(ParsedOptions(PlainBody), 0)>>
  /\ wpc = "idle"
  /\ wsave = NoSave
  /\ csave = <<StartSave(1), StartSave(2)>>
  /\ reply = <<0, 0>>
  /\ rejects = 0
  /\ disk = <<NoFile, NoFile>>
  /\ proc = <<NotSpawned, NotSpawned>>
  /\ subs = EmptyBag
  /\ out = 0
  /\ clock = 0
  /\ listing = NoListing
  /\ seen = <<"none", "none">>

\* Streams of two runs whose clients stay, the file system never failing.
PubNext ==
  \/ CalmSaveSteps
  \/ RunningSaved
  \/ \E o \in ExitEndings : ExecDone(o)
  \/ FinalSaved
  \/ \E kind \in {"stdout", "stderr"} : out < PubChunks /\ EmitChunk(kind)
  \/ \E id \in Runs : BagCardinality(subs) < PubSubs /\ StreamRead(id)
  \/ \E sub \in BagToSet(subs) : StreamAttach(sub)

PubSpec == PubInit /\ [][PubNext]_vars

\* Every pending mkdir and writeFile settles, every child exits or is killed
\* by the timeout, and every continuation whose await has settled runs.
CalmFairness ==
  /\ \A r \in 1..MaxRuns : WF_vars(CreateSaveMkdir(r))
  /\ \A r \in 1..MaxRuns : WF_vars(CreateSaveOpen(r))
  /\ \A r \in 1..MaxRuns : WF_vars(CreateSaved(r))
  /\ WF_vars(WorkerSaveOpen)
  /\ WF_vars(RunningSaved)
  /\ WF_vars(\E o \in Endings : ExecDone(o))
  /\ WF_vars(FinalSaved)

CalmFairSpec == Init /\ [][CalmNext]_vars /\ CalmFairness

CalmStreamNext ==
  \/ CalmSaveSteps
  \/ \E o \in ExitEndings : ExecDone(o)
  \/ RunningSaved
  \/ FinalSaved
  \/ StreamSteps

\* Live streams of a run, the file system never failing.
CalmStreamSpec == StreamInit /\ [][CalmStreamNext]_vars

\* ------------------------------------------------------------ claims
RunningInMemory == { r \in Runs : metadata[r].status = "running" }

RunningOnDisk == { r \in Runs : disk[r].status = "running" }

\* At most one run object in memory has status running.
OneRunningInMemory == Cardinality(RunningInMemory) <= 1

\* C1: at most one Run has status Running, in the coordinator's memory and
\* among the persisted run records.
OneRunningEverywhere ==
  /\ Cardinality(RunningInMemory) <= 1
  /\ Cardinality(RunningOnDisk) <= 1


\* get(r): getRun parses the file, null when it is missing or does not parse.
GetRun(r) == IF r \in Runs /\ Parses(disk[r]) THEN disk[r] ELSE NoFile

\* POST /api/runs answered 201 with run id r.
Accepted(r) == r \in Runs /\ reply[r] = 201

\* C2: every accepted run eventually has, and from then on keeps, a persisted
\* record that get reports as Completed or Failed.
AcceptedEndsTerminal ==
  \A r \in 1..MaxRuns : [](Accepted(r) => <>[](r \in Runs /\ Terminal(GetRun(r))))

\* Run b goes from queued to running in this step.
Starts(b) == metadata[b].status = "queued" /\ metadata'[b].status = "running"

\* The worker leaves run a in this step.
Leaves(a) == currentRun = a /\ currentRun' # a

\* While a run executes, every run submitted after it is queued, in memory
\* and in whatever record of it is on disk.
LaterStaysQueued ==
  \A a \in Runs : \A b \in Runs :
    (currentRun = a /\ a < b) =>
      /\ metadata[b].status = "queued"
      /\ disk[b].status \in {"nofile", "unparsable", "queued"}

\* A start of a run comes after all earlier runs.
StartsInOrder ==
  \A b \in Runs :
    Starts(b) =>
      \A a \in 1..(b - 1) :
        /\ Terminal(metadata'[a])
        /\ currentRun' # a
        /\ \A i \in DOMAIN queue' : queue'[i] # a

\* A run the worker leaves has, or just had, a terminal record on disk.
LeavesPersisted ==
  \A a \in Runs : Leaves(a) => Terminal(disk[a]) \/ Terminal(disk'[a])

\* C3: runs start in submission order. A run starts only when every run
\* submitted before it has left the queue and ended; when the worker leaves a
\* run, that run's file holds or has just held a record with a terminal
\* status; and a later run stays queued while an earlier one executes.
FifoOrder ==
  /\ []LaterStaysQueued
  /\ [][StartsInOrder /\ LeavesPersisted]_vars

\* C3 witness: the second of two submissions runs after the first has ended
\* with its terminal record on disk.
FifoWitness ==
  /\ Len(metadata) >= 2
  /\ currentRun = 2
  /\ metadata[2].status = "running"
  /\ Terminal(metadata[1])
  /\ Terminal(disk[1])

\* ------------------------------------------------------------ validation
\* The record's warmup and repeat are inside the schema's ranges.
InRange(m) ==
  /\ m.warmup >= WarmupMin /\ m.warmup <= WarmupMax
  /\ m.repeat >= RepeatMin /\ m.repeat <= RepeatMax

\* C8: no submission with warmup or repeat out of range is ever admitted, and
\* a 400 response leaves the queue, the current run, the run objects and the
\* files as they were.
OutOfRangeRejected ==
  /\ [](\A r \in Runs : InRange(metadata[r]) /\ (Parses(disk[r]) => InRange(disk[r])))
  /\ [][rejects' # rejects =>
          UNCHANGED <<queue, currentRun, processing, metadata, disk, csave, wsave>>]_vars

\* C8 witness: a request was refused while a run was queued, a run at the
\* ends of both ranges having been admitted.
RejectedWitness ==
  /\ rejects > 0
  /\ queue # <<>>
  /\ \E r \in Runs : metadata[r].repeat = RepeatMax /\ metadata[r].warmup = WarmupMin

\* C9: no run whose experiment is not in the catalog is ever admitted: none
\* is queued, current, or has a record on disk.
OnlyCatalogRuns ==
  \A r \in Runs : metadata[r].exp.known /\ (Parses(disk[r]) => disk[r].exp.known)

\* ------------------------------------------------------------ timeout
\* What the worker writes into a record when the run ends.
Outcome(m) == [status |-> m.status, results |-> m.results, artifacts |-> m.artifacts]

TimedOut(r) == proc[r].kind = "timeout" /\ Terminal(metadata[r])

ExitedNonZero(r) == proc[r].kind = "exit" /\ proc[r].code # 0 /\ Terminal(metadata[r])

\* C10: a run killed by the timeout ends Failed, and its record differs from
\* the record of a run whose process exited by itself with a non-zero code.
TimeoutIsMarked ==
  \A r \in Runs :
    TimedOut(r) =>
      /\ metadata[r].status = "failed"
      /\ \A x \in Runs : ExitedNonZero(x) => Outcome(metadata[r]) # Outcome(metadata[x])

\* ------------------------------------------------------------ streams
Streams == BagToSet(subs)

IsChunk(e) == e.type \in {"stdout", "stderr"}

IsComplete(e) == e.type = "complete"

ChunksOf(sub) == SelectSeq(sub.events, IsChunk)

CompletesOf(sub) == SelectSeq(sub.events, IsComplete)

\* Sequence c is the end of sequence d.
IsSuffix(c, d) ==
  /\ Len(c) <= Len(d)
  /\ \A i \in 1..Len(c) : c[i] = d[Len(d) - Len(c) + i]

\* The chunks are consecutive chunks of the child's output, in its order.
InOrder(c) == \A i \in 1..(Len(c) - 1) : c[i + 1].n = c[i].n + 1

\* C4: two streams of the same run got the same chunk wherever both got one,
\* each in the order the child wrote them with none missing in between; of
\* two streams both still registered one has the end of what the other has;
\* and a stream has one complete event, its last, if it has ended and none
\* otherwise.
SameChunks ==
  /\ \A a \in Streams : \A b \in Streams :
       a.run = b.run =>
         /\ \A i \in DOMAIN ChunksOf(a) : \A j \in DOMAIN ChunksOf(b) :
              ChunksOf(a)[i].n = ChunksOf(b)[j].n => ChunksOf(a)[i] = ChunksOf(b)[j]
         /\ (a.listening /\ b.listening) =>
              IsSuffix(ChunksOf(a), ChunksOf(b)) \/ IsSuffix(ChunksOf(b), ChunksOf(a))
  /\ \A a \in Streams :
       /\ InOrder(ChunksOf(a))
       /\ IF a.pc = "ended"
          THEN Len(CompletesOf(a)) = 1 /\ IsComplete(a.events[Len(a.events)])
          ELSE Len(CompletesOf(a)) = 0

\* C4 witness: two streams of one run have ended, one with both chunks and
\* one, registered later, with the second chunk only.
SameChunksWitness ==
  \E a \in Streams : \E b \in Streams :
    /\ a.run = b.run
    /\ a.pc = "ended" /\ b.pc = "ended"
    /\ a.connected /\ b.connected
    /\ Len(ChunksOf(a)) = 2
    /\ Len(ChunksOf(b)) = 1

\* The stream found the run's record terminal when it read it.
FoundTerminal(sub) == sub.pc = "ended" /\ Terminal(sub.snap)

\* C5 as stated: a stream of a run already terminal gets exactly one event,
\* the complete event with the record.
TerminalGetsOneEvent ==
  \A sub \in Streams : FoundTerminal(sub) => sub.events = <<CompleteEvent(sub.snap)>>

\* C5 amended: a stream of a run already terminal gets the status event with
\* the terminal status, then the complete event with the record, nothing
\* else ever, and is closed with no listener registered.
TerminalGetsStatusThenComplete ==
  \A sub \in Streams :
    FoundTerminal(sub) =>
      /\ sub.events = <<StatusEvent(sub.snap.status), CompleteEvent(sub.snap)>>
      /\ ~sub.listening

\* C5 witness: a connected stream found its run terminal.
TerminalWitness == \E sub \in Streams : FoundTerminal(sub) /\ sub.connected

\* The stream found the run's record not terminal and registered listeners.
Live(sub) == sub.pc \in {"attached", "ended"} /\ ~Terminal(sub.snap)

\* C6 as stated: the events of a stream of a non-terminal run are stdout and
\* stderr events and then one complete event, the last.
OnlyChunksThenComplete ==
  \A sub \in Streams :
    Live(sub) =>
      \A i \in DOMAIN sub.events :
        \/ IsChunk(sub.events[i])
        \/ IsComplete(sub.events[i]) /\ i = Len(sub.events)

\* C6 amended: the events of a stream of a non-terminal run are one status
\* event, then stdout and stderr events, then at most one error event, then
\* at most one complete event; the stream has ended exactly when its last
\* event is complete, and then no listener of it is registered.
StatusChunksErrorComplete ==
  \A sub \in Streams :
    Live(sub) =>
      /\ Len(sub.events) >= 1
      /\ sub.events[1].type = "status"
      /\ sub.events[1].status \in {"queued", "running"}
      /\ \A i \in 2..Len(sub.events) :
           \/ IsChunk(sub.events[i])
              /\ \A j \in 2..i : IsChunk(sub.events[j])
           \/ sub.events[i].type = "error"
              /\ \A j \in (i + 1)..Len(sub.events) : IsComplete(sub.events[j])
           \/ IsComplete(sub.events[i]) /\ i = Len(sub.events)
      /\ sub.pc = "ended" <=> IsComplete(sub.events[Len(sub.events)])
      /\ sub.pc = "ended" => ~sub.listening

\* C6 witness: a connected stream of a run that failed got status, a chunk,
\* error and complete, and has ended.
LiveWitness ==
  \E sub \in Streams :
    /\ Live(sub) /\ sub.pc = "ended" /\ sub.connected
    /\ Len(ChunksOf(sub)) >= 1
    /\ \E i \in DOMAIN sub.events : sub.events[i].type = "error"

\* The worker has nothing left to do and no save is in flight.
Quiet ==
  /\ queue = <<>>
  /\ ~processing
  /\ \A r \in Runs : Accepted(r) /\ Terminal(metadata[r]) /\ ~InFlight(csave[r])

\* C7, as a final result: once every run has ended and the worker is idle,
\* so that nothing will be emitted any more, no connected stream is still
\* waiting for its complete event.
NoStreamLeftWaiting ==
  Quiet => \A sub \in Streams : sub.connected => sub.pc # "attached"

\* ------------------------------------------------------------ worker loop
\* The process of run r was killed by the timeout or exited non-zero, and the
\* run is Failed.
FailedByProcess(r) ==
  /\ metadata[r].status = "failed"
  /\ proc[r].kind = "timeout" \/ (proc[r].kind = "exit" /\ proc[r].code # 0)

\* processQueue is suspended at an await, or will be called by a createRun.
LoopAlive == wpc # "dead"

\* C11, as a final result: a run that failed by timeout or non-zero exit and
\* is still the current run is held by a worker loop that is still going to
\* clear currentRun and take the next queued run.
FailedRunReleasesSlot ==
  \A r \in Runs : (FailedByProcess(r) /\ currentRun = r) => LoopAlive

\* C12: there is no state with processing = true, no worker loop running and
\* a queued run.
LoopNeverStuck == ~(processing /\ ~LoopAlive /\ queue # <<>>)

\* The worker has finished run r.
Left(r) ==
  /\ Terminal(metadata[r])
  /\ currentRun # r
  /\ \A i \in DOMAIN queue : queue[i] # r

\* C13: once the worker has persisted a run's terminal record and left the
\* run, a record read from the run's file has the status, results, completed
\* timestamp and artifacts the worker wrote.
PersistedTerminalKept ==
  \A r \in Runs :
    (Left(r) /\ Parses(disk[r])) =>
      /\ Outcome(disk[r]) = Outcome(metadata[r])
      /\ disk[r].completed = metadata[r].completed

\* ------------------------------------------------------------ outcomes
ExitedZero(r) == proc[r].kind = "exit" /\ proc[r].code = 0

\* In a record with results, completed goes with exit code 0 and failed with
\* another exit code.
CodeFitsStatus(m) ==
  m.results # {} =>
    /\ m.status = "completed" => m.results = {0}
    /\ m.status = "failed" => 0 \notin m.results

\* C14: a terminal run is Completed exactly when its process exited with code
\* 0, and in every record with results, in memory or on disk, Completed goes
\* with exit code 0 and Failed with another exit code.
ExitCodeMatchesStatus ==
  \A r \in Runs :
    /\ Terminal(metadata[r]) => (metadata[r].status = "completed" <=> ExitedZero(r))
    /\ CodeFitsStatus(metadata[r])
    /\ Parses(disk[r]) => CodeFitsStatus(disk[r])

\* C15: a run whose process could not be spawned ends Failed with results
\* that no run whose process was spawned and exited by itself has.
SpawnFailureSentinel ==
  \A r \in Runs :
    (proc[r].kind = "spawnfail" /\ Terminal(metadata[r])) =>
      /\ metadata[r].status = "failed"
      /\ \A x \in Runs :
           (proc[x].kind = "exit" /\ Terminal(metadata[x])) =>
             metadata[r].results # metadata[x].results

\* ------------------------------------------------------------ no retry
InQueue(r, q) == \E i \in DOMAIN q : q[i] = r

\* The child of run r is spawned in this step.
Spawns(r) == proc[r].kind # "awaited" /\ proc'[r].kind = "awaited"

\* C16: no run is retried. The queue holds a run at most once; a run enters
\* it only as a new submission and never again once it has left; a run's
\* process is spawned only if none was spawned for it before; and a run that
\* has started never becomes queued or running again.
NeverRetried ==
  /\ [](\A i \in DOMAIN queue : \A j \in DOMAIN queue : queue[i] = queue[j] => i = j)
  /\ [][\A r \in Runs :
          /\ (~InQueue(r, queue)) => ~InQueue(r, queue')
          /\ Spawns(r) => proc[r].kind = "none"
          /\ Terminal(metadata[r]) => Terminal(metadata'[r])
          /\ metadata[r].status # "queued" => ~Starts(r)]_vars

\* C16 witness: the queue is empty after the worker left one run ended by
\* the timeout or a failed spawn, and one that failed in the worker's own
\* save before any process was spawned.
NeverRetriedWitness ==
  /\ queue = <<>>
  /\ \E r \in Runs : Left(r) /\ proc[r].kind \in {"timeout", "spawnfail"}
  /\ \E r \in Runs : Left(r) /\ proc[r].kind = "none"

\* ------------------------------------------------------------ artifacts
ArtifactsFit(m) ==
  /\ "stderr" \in m.artifacts => m.trace
  /\ "cpuProfile" \in m.artifacts => m.profile

\* C17: in every record of a run, in memory and on disk, artifacts.stderr is
\* set only if trace was requested and artifacts.cpuProfile only if profile
\* was, the record's options being the request's.
ArtifactsFollowOptions ==
  \A r \in Runs :
    /\ ArtifactsFit(metadata[r])
    /\ Parses(disk[r]) =>
         /\ ArtifactsFit(disk[r])
         /\ disk[r].trace = metadata[r].trace
         /\ disk[r].profile = metadata[r].profile

\* C17 witness: the persisted record of a completed run that asked for trace
\* and not for profile lists stdout and stderr.
ArtifactsWitness ==
  \E r \in Runs :
    /\ disk[r].status = "completed"
    /\ disk[r].trace /\ ~disk[r].profile
    /\ disk[r].artifacts = {"stdout", "stderr"}

\* ------------------------------------------------------------ reads
\* C19: once POST /api/runs has answered 201 with a run id, a getRun of that
\* id at any moment returns a record of the run: never null, for a missing
\* file or for one that does not parse.
GetFindsAccepted == \A r \in Runs : Accepted(r) => Parses(GetRun(r))

\* ------------------------------------------------------------ observers
\* Everything but the stream requests.
runVars ==
  <<queue, currentRun, processing, metadata, wpc, wsave, csave, reply, rejects,
    disk, proc, out>>

\* The steps of the worker that publish, written without the stream requests.
EmitChunkUnobserved ==
  /\ wpc = "exec"
  /\ out < MaxChunks
  /\ out' = out + 1
  /\ UNCHANGED <<coordVars, httpVars, disk, proc, listVars>>

ExecDoneUnobserved(o) ==
  /\ wpc = "exec"
  /\ o.kind = "spawnfail" => out = 0
  /\ proc' = [proc EXCEPT ![currentRun] = o]
  /\ metadata' = [metadata EXCEPT ![currentRun] =
                    IF o.kind = "exit" /\ o.code = 0
                    THEN ExecSucceeded(@) ELSE ExecFailed(@, o)]
  /\ wsave' = StartWorkerSave(currentRun, metadata'[currentRun])
  /\ wpc' = "saveFinal"
  /\ UNCHANGED <<queue, currentRun, processing, httpVars, disk, out, listVars>>

FinalSavedUnobserved ==
  /\ wpc = "saveFinal"
  /\ wsave.phase = "open"
  /\ disk' = [disk EXCEPT ![wsave.id] = Landed(wsave)]
  /\ csave' = [csave EXCEPT ![wsave.id] = Overtaken(@, wsave)]
  /\ LoopStep(metadata)
  /\ UNCHANGED <<reply, rejects, proc, out, listVars>>

\* A step of the service as it is with nobody listening.
UnobservedStep ==
  \/ SaveSteps /\ subs' = subs
  \/ (RunningSaved \/ ExecuteRunThrows \/ CatchSaved \/ CatchThrows) /\ subs' = subs
  \/ EmitChunkUnobserved
  \/ \E o \in Endings : ExecDoneUnobserved(o)
  \/ FinalSavedUnobserved

\* The stream requests change by what the service emits to its listeners.
Published ==
  \/ \E kind \in {"stdout", "stderr"} : subs' = EmitChunkTo(subs, currentRun, kind, out + 1)
  \/ subs' = EmitErrorTo(subs, currentRun)
  \/ subs' = EmitCompleteTo(subs, currentRun, metadata[currentRun])

\* One stream request arrives, or one changes, every other staying as it is.
OneRequestChanges ==
  \/ \E x \in BagToSet(subs') : subs' (-) SetToBag({x}) = subs
  \/ \E sub \in BagToSet(subs) : \E x \in BagToSet(subs') :
       subs' (-) SetToBag({x}) = subs (-) SetToBag({sub})

\* What the worker awaits has settled, as far as the run state tells.
CanPublish ==
  /\ (wpc = "exec" /\ out < MaxChunks) => ENABLED EmitChunk("stdout")
  /\ wpc = "exec" => ENABLED ExecDone([kind |-> "exit", code |-> 1])
  /\ (wpc = "saveFinal" /\ wsave.phase = "open") => ENABLED FinalSaved

\* C20: the runs do not depend on who observes them. Every step changes the
\* queue, the current run, the run objects, the saves, the files and the
\* processes as a step of the service with nobody listening would; a step
\* that is not the service publishing changes one stream request only and
\* nothing of the runs; and no listener keeps the worker from publishing.
ObserverFree ==
  /\ []CanPublish
  /\ [][UnobservedStep \/ UNCHANGED runVars]_vars
  /\ [][subs' # subs =>
          \/ Published /\ ~UNCHANGED runVars
          \/ OneRequestChanges /\ UNCHANGED runVars]_vars

\* C20 witness: one client went away, another received a chunk and the
\* complete event, and the record of their run on disk is terminal.
ObserverFreeWitness ==
  \E a \in Streams : \E b \in Streams :
    /\ a.run = b.run
    /\ ~a.connected
    /\ b.connected /\ b.pc = "ended" /\ Len(ChunksOf(b)) >= 1
    /\ Terminal(disk[b.run])

\* ------------------------------------------------------------ listRuns order
\* The last listRuns call has returned.
Listed == listing.pc = "done"

\* C18: in what listRuns returns no run appears twice, and of any two runs the
\* one submitted later comes first, two runs with the same queued timestamp
\* included.
ListedNewestFirst ==
  Listed =>
    \A i \in DOMAIN listing.runs : \A j \in DOMAIN listing.runs :
      i < j => listing.runs[i].id > listing.runs[j].id

\* ------------------------------------------------------------ save before queue
\* C21: the worker never holds a run (has dequeued it, is writing or has
\* written its Running snapshot) while createRun's save of the run's Queued
\* record is still unfinished.
InitialSaveFirst ==
  \A r \in Runs : currentRun = r => ~InFlight(csave[r])

\* ------------------------------------------------------------ status order
\* How far a status is along Queued -> Running -> Completed | Failed.
Rank(st) ==
  CASE st = "none" -> 0 [] st = "queued" -> 1 [] st = "running" -> 2 [] OTHER -> 3

\* C22: the status successive getRun calls return for a run only moves
\* forward along Queued -> Running -> Completed | Failed: it never moves
\* backward and a terminal status never changes.
StatusMovesForward ==
  [][\A r \in Runs :
       /\ Rank(seen'[r]) >= Rank(seen[r])
       /\ Rank(seen[r]) = 3 => seen'[r] = seen[r]]_vars

\* ------------------------------------------------------------ complete after save
\* C23: whenever a stream has got a complete event for its run, then and ever
\* after getRun of that run returns a record with a terminal status, the
\* record the event carried.
CompleteAfterPersisted ==
  \A sub \in Streams : \A i \in DOMAIN sub.events :
    IsComplete(sub.events[i]) =>
      /\ Terminal(GetRun(sub.run))
      /\ sub.events[i].run = GetRun(sub.run)

\* ------------------------------------------------------------ per-run events
\* The stream requests of bag B that did not ask for run id.
OthersOf(B, id) == [e \in {x \in DOMAIN B : x.run # id} |-> B[e]]

\* The worker emits in this step: a chunk, run:error or run:complete.
Emits ==
  \/ wpc = "exec" /\ (out' # out \/ wpc' # wpc)
  \/ wpc = "saveFinal" /\ wpc' # wpc

\* What a stream has got besides its status event comes from its own run: the
\* run has been spawned, and a live stream has ended only if the run has.
OwnRunOnly(sub) ==
  /\ Len(sub.events) > 1 => (Terminal(sub.snap) \/ proc[sub.run].kind # "none")
  /\ (sub.pc = "ended" /\ ~Terminal(sub.snap)) => Terminal(metadata[sub.run])

\* C24: a step in which the worker emits for the current run leaves every
\* stream of another run as it was, neither written to nor closed; and every
\* stream holds events of its own run only.
PerRunEvents ==
  /\ [](\A sub \in Streams : OwnRunOnly(sub))
  /\ [][Emits => OthersOf(subs', currentRun) = OthersOf(subs, currentRun)]_vars

\* C24 witness: the first run has written a chunk and ended and the worker
\* has gone on to the second run, whose stream is still listening and holds
\* its status event only.
PerRunWitness ==
  /\ currentRun = 2
  /\ Terminal(metadata[1])
  /\ out >= 1
  /\ wpc = "saveRunning"
  /\ \E sub \in Streams :
       /\ sub.run = 2 /\ sub.listening /\ sub.connected
       /\ sub.events = <<StatusEvent("queued")>>

\* ------------------------------------------------------------ record shape
\* results and timestamps.completed are present exactly when the status is
\* terminal, timestamps.started exactly when it is not Queued.
Shaped(m) ==
  /\ m.results # {} <=> Terminal(m)
  /\ m.completed <=> Terminal(m)
  /\ m.started <=> m.status # "queued"

\* C25: every run record, the object in memory and the record on disk, has
\* its results and completed timestamp exactly when terminal and its started
\* timestamp exactly when not Queued.
ResultsIffTerminal ==
  \A r \in Runs : Shaped(metadata[r]) /\ (Parses(disk[r]) => Shaped(disk[r]))

EndedLive(sub) == sub.pc = "ended" /\ ~Terminal(sub.snap)

\* The chunks a stream has are the last ones written up to number last.
LastChunks(sub, last) ==
  \A i \in DOMAIN ChunksOf(sub) :
    ChunksOf(sub)[i].n = last - Len(ChunksOf(sub)) + i

\* Chunk events held by the stream requests of set S, counted in bag B.
RECURSIVE ChunkCount(_, _)
ChunkCount(S, B) ==
  IF S = {} THEN 0
  ELSE LET e == CHOOSE x \in S : TRUE
       IN B[e] * Len(ChunksOf(e)) + ChunkCount(S \ {e}, B)

Unfinished == { r \in Runs : ~Terminal(metadata[r]) }

\* currentRun is set only while processing, the current run is not in the
\* queue, no run is in the queue twice and every run in it is Queued.
QueueSound ==
  /\ currentRun # 0 => processing
  /\ ~InQueue(currentRun, queue)
  /\ \A i \in DOMAIN queue : \A j \in DOMAIN queue : queue[i] = queue[j] => i = j
  /\ \A i \in DOMAIN queue : metadata[queue[i]].status = "queued"

\* C28 as stated: besides, the current run is Running, and the runs not yet
\* terminal are as many as queueLength, plus one if currentRun is set.
QueueStatusCounts ==
  /\ QueueSound
  /\ currentRun # 0 => metadata[currentRun].status = "running"
  /\ Cardinality(Unfinished) = Len(queue) + (IF currentRun # 0 THEN 1 ELSE 0)

\* C28 amended: besides, the current run is Running until its process has
\* ended and terminal from then on, until currentRun is cleared; and the runs
\* not yet terminal are as many as queueLength, plus one if the current run
\* is still Running.
QueueStatusCountsRunning ==
  /\ QueueSound
  /\ currentRun # 0 =>
       /\ metadata[currentRun].status = "running" \/ Terminal(metadata[currentRun])
       /\ metadata[currentRun].status = "running" <=> wpc \in {"saveRunning", "exec"}
  /\ Cardinality(Unfinished) =
       Len(queue) + (IF currentRun # 0 /\ metadata[currentRun].status = "running"
                     THEN 1 ELSE 0)

\* C28 witness: the current run's process has ended and its final save is in
\* flight, with another run queued.
QueueStatusWitness ==
  /\ currentRun # 0
  /\ wpc = "saveFinal"
  /\ Terminal(metadata[currentRun])
  /\ queue # <<>>

\* ------------------------------------------------------------ failed submit
\* The submission of run r was answered with an error.
Refused(r) == r \in Runs /\ reply[r] = 500

\* C29: a run whose submission failed is not in the queue, is not the current
\* run and has never been spawned.
FailedSubmitLeavesNothing ==
  \A r \in Runs :
    Refused(r) =>
      /\ ~InQueue(r, queue)
      /\ currentRun # r
      /\ proc[r].kind = "none"

\* ------------------------------------------------------------ listeners
\* C30: the handlers registered on the service are those of the streams still
\* open: a stream has its listeners registered only while its client is
\* connected and it has not got complete, an attached stream whose client is
\* connected has them, and a stream that found its run terminal has none.
NoListenerLeak ==
  \A sub \in Streams :
    /\ sub.listening => (sub.connected /\ sub.pc = "attached")
    /\ (sub.connected /\ sub.pc = "attached") => sub.listening
    /\ FoundTerminal(sub) => ~sub.listening

====
